---- MODULE Spec2Model ----
(***************************************************************************)
(* A model of src/main.py: the order lifecycle of the trading assistant.   *)
(*                                                                         *)
(* Numbers.  Every price (and every ratio) is a fixed-point integer in     *)
(* units of 1/Scale = 0.0001, so that the code's round(x, 3) and           *)
(* round(x, 2) are real conversions and not the identity.  Python's round  *)
(* is round-half-to-even on the value it is given.                         *)
(*                                                                         *)
(* Exceptions.  A Python call either returns a value or raises; it is      *)
(* modelled as a record [exc |-> "none", val |-> v] or [exc |-> name].     *)
(*                                                                         *)
(* Time.  The clock counts moments: every reading of it by the program     *)
(* (time.time(), datetime.now()) and every dated event of the account is a *)
(* moment of its own, later than all the moments before it.                *)
(***************************************************************************)
EXTENDS Integers, Sequences, FiniteSets, TLC

VARIABLES
    pc,             \* position of the program (which function, which line)
    book,           \* gateway: figi -> payload of market_orderbook_get
    open,           \* gateway: the account's open orders (orders_get)
    history,        \* gateway: the account's operations (operations_get)
    next_id,        \* gateway: the id the next accepted order gets
    now,            \* the clock (time.time(), datetime.now())
    last_update,    \* __main__: last_update
    work,           \* the list the running loop iterates over
    idx,            \* the position of the running loop in work
    arg,            \* the parameters of the running call
    ret,            \* what the last finished call returned or raised
    trace,          \* gateway calls, prompts and sleeps issued so far
    moves           \* how many times the world outside the program has acted

vars == <<pc, book, open, history, next_id, now, last_update, work, idx, arg, ret, trace, moves>>

gateway == <<book, open, history, next_id, moves>>
account == <<open, history, next_id>>
clock == <<now, last_update>>

---------------------------------------------------------------------------
(* Fixed point arithmetic *)

Scale == 10 * 1000

\* cents -> price
Px(cents) == cents * 100

Abs(x) == IF x < 0 THEN -x ELSE x

RECURSIVE LongDiv(_, _, _)
\* the quotient q and the remainder r of n * 10^k by d > 0:
\* n * 10^k = q * d + r and 0 <= r < d
LongDiv(n, d, k) ==
    IF k = 0 THEN [q |-> n \div d, r |-> n % d]
    ELSE LET p == LongDiv(n, d, k - 1)
         IN  [q |-> p.q * 10 + (p.r * 10) \div d, r |-> (p.r * 10) % d]

\* the integer nearest to n * 10^k / d (d > 0), ties to the even one
RoundRatio(n, d, k) ==
    LET p == LongDiv(n, d, k)
    IN  IF 2 * p.r < d THEN p.q
        ELSE IF 2 * p.r > d THEN p.q + 1
        ELSE IF p.q % 2 = 0 THEN p.q ELSE p.q + 1

RoundHalfEven(n, d) == RoundRatio(n, d, 0)

\* Python round(x, ndigits) for ndigits in {2, 3}
round(x, ndigits) ==
    LET m == IF ndigits = 3 THEN 10 ELSE 100
    IN  RoundHalfEven(x, m) * m

round_float(x) == round(x, 3)

float_eq(x, y) == round(x, 3) = round(y, 3)

---------------------------------------------------------------------------
(* Results of calls *)

Ok(v) == [exc |-> "none", val |-> v]
Raise(e) == [exc |-> e]
IsOk(r) == r.exc = "none"

None == [none |-> TRUE]

---------------------------------------------------------------------------
(* CompanyData *)

OrderResponse(p, q) == [price |-> p, quantity |-> q]

CompanyData(figi, ticker, ask, bid, currency, last_price, min_price_increment, close_price) ==
    [figi |-> figi, ticker |-> ticker, ask |-> ask, bid |-> bid, currency |-> currency,
     last_price |-> last_price, minPriceIncrement |-> min_price_increment,
     close_price |-> close_price]

get_bid(c) == c.bid.price

get_ask(c) == c.ask.price

get_delta(c) == c.close_price - get_bid(c)

is_changed(c) == round_float(c.last_price) /= round_float(c.close_price)

\* round_float(delta / last_price): the quotient is rounded once, to 3 decimals
get_income(c) ==
    IF c.last_price = 0 THEN Raise("ZeroDivisionError")
    ELSE Ok(RoundRatio(get_delta(c), c.last_price, 3) * 10)

---------------------------------------------------------------------------
(* The brokerage gateway, as the program sees it *)

Figis == {"F1", "F2"}

\* market_search_by_figi_get(figi).payload
MarketInstrument(figi) ==
    [figi |-> figi,
     ticker |-> IF figi = "F1" THEN "T1" ELSE "T2",
     currency |-> IF figi = "F1" THEN "USD" ELSE "RUB",
     min_price_increment |-> IF figi = "F1" THEN Px(50) ELSE 40]

\* orderbooks of depth 1: bids, asks, last_price, close_price
BookA == [bids |-> <<OrderResponse(Px(10000), 5)>>, asks |-> <<OrderResponse(Px(10100), 5)>>,
          last_price |-> Px(10200), close_price |-> Px(10500)]
BookB == [bids |-> <<OrderResponse(Px(9900), 5)>>, asks |-> <<OrderResponse(Px(10000), 5)>>,
          last_price |-> Px(10200), close_price |-> Px(10500)]
BookEmpty == [bids |-> <<>>, asks |-> <<>>,
              last_price |-> Px(10200), close_price |-> Px(10500)]
BookZero == [bids |-> <<OrderResponse(Px(10000), 5)>>, asks |-> <<OrderResponse(Px(10100), 5)>>,
             last_price |-> 0, close_price |-> Px(10500)]

Books == {BookA, BookB, BookEmpty, BookZero}

\* market_orderbook_get(figi, 1): the answers the gateway can give
OrderbookResponses(figi) ==
    { [status_code |-> "200",
       payload |-> [figi |-> figi, bids |-> book[figi].bids, asks |-> book[figi].asks,
                    last_price |-> book[figi].last_price,
                    close_price |-> book[figi].close_price,
                    min_price_increment |-> MarketInstrument(figi).min_price_increment]],
      [status_code |-> "429"],
      [status_code |-> "500"] }

\* market_search_by_figi_get(figi): the answers the gateway can give
SearchResponses(figi) ==
    { [status_code |-> "200", payload |-> MarketInstrument(figi)],
      [status_code |-> "500"] }

\* the mutant: the two sentinels have changed sides
get_price_SentinelsSwapped(info) ==
    IF info.status_code = "200"
    THEN LET stock_info == info.payload
             asks == IF Len(stock_info.asks) = 0
                     THEN Append(stock_info.asks, OrderResponse(Px(1000000), 0))
                     ELSE stock_info.asks
             bids == IF Len(stock_info.bids) = 0
                     THEN Append(stock_info.bids, OrderResponse(0, 0))
                     ELSE stock_info.bids
         IN  Ok([stock_info EXCEPT !.asks = asks, !.bids = bids])
    ELSE Raise(info.status_code)

\* get_price: an empty side of the book is replaced by its sentinel; any
\* status but 200 is raised as Exception(status_code)
get_price(info) ==
    IF info.status_code = "200"
    THEN LET stock_info == info.payload
             asks == IF Len(stock_info.asks) = 0
                     THEN Append(stock_info.asks, OrderResponse(0, 0))
                     ELSE stock_info.asks
             bids == IF Len(stock_info.bids) = 0
                     THEN Append(stock_info.bids, OrderResponse(Px(1000000), 0))
                     ELSE stock_info.bids
         IN  Ok([stock_info EXCEPT !.asks = asks, !.bids = bids])
    ELSE Raise(info.status_code)

\* get_info_by_figi: the search answer, then the quotes; None when the search
\* fails, and the exception of get_price is not caught here
get_info_by_figi(figi, response, info) ==
    IF response.status_code = "200"
    THEN LET cmp_info == response.payload
             prices == get_price(info)
         IN  IF ~IsOk(prices) THEN prices
             ELSE Ok(CompanyData(figi, cmp_info.ticker, prices.val.asks[1], prices.val.bids[1],
                                 cmp_info.currency, prices.val.last_price,
                                 cmp_info.min_price_increment, prices.val.close_price))
    ELSE Ok(None)

---------------------------------------------------------------------------
(* The world outside the program: quotes move, resting orders leave the book *)

MaxMoves == 1

Stopped == pc \in {"crashed", "returned", "exit"}

\* the quotes of one instrument change
MarketMove ==
    /\ ~Stopped
    /\ moves < MaxMoves
    /\ \E f \in Figis, b \in Books : b /= book[f] /\ book' = [book EXCEPT ![f] = b]
    /\ moves' = moves + 1
    /\ UNCHANGED <<pc, account, clock, work, idx, arg, ret, trace>>

\* a resting order is executed (Done) or dropped by the exchange (Decline):
\* it leaves the open orders and shows in the account's operations, dated by
\* the moment it happened (no two moments of the run are the same)
OrderLeaves ==
    /\ ~Stopped
    /\ moves < MaxMoves
    /\ now' = now + 1
    /\ \E o \in open, status \in {"Done", "Decline"} :
        /\ open' = open \ {o}
        /\ history' = Append(history, [id |-> Len(history) + 1, figi |-> o.figi,
                                       operation_type |-> o.operation,
                                       status |-> status, date |-> now'])
    /\ moves' = moves + 1
    /\ UNCHANGED <<pc, book, next_id, last_update, work, idx, arg, ret, trace>>

---------------------------------------------------------------------------
(* Order Pricer and order submission *)

MaxOrders == 3

PostOutcomes == {"200", "500"}

\* the mutant: the tick is taken the other way, away from the spread
new_price_Outside(company, operation_type) ==
    IF operation_type = "Buy"
    THEN get_bid(company) - company.minPriceIncrement
    ELSE get_ask(company) + company.minPriceIncrement

\* the limit price before rounding: one tick inside the best price of the side
new_price(company, operation_type) ==
    IF operation_type = "Buy"
    THEN get_bid(company) + company.minPriceIncrement
    ELSE get_ask(company) - company.minPriceIncrement

\* create_order: LimitOrderRequest(price=round(price, 2)), the log line (whose
\* arguments are evaluated whatever DEBUG is), orders_limit_order_post.
\* status is the gateway's answer, orders the open orders before the call and
\* origin what the order is submitted for: the calling path and the id of the
\* order, operation or candidate (kept for the record only).
create_order(company, price, operation_type, status, orders, origin) ==
    LET body == [price |-> round(price, 2), lots |-> 1, operation |-> operation_type]
        income == get_income(company)
        order == [order_id |-> next_id, figi |-> company.figi,
                  operation |-> body.operation, price |-> body.price]
        post == [call |-> "orders_limit_order_post", figi |-> company.figi, body |-> body,
                 status_code |-> status, origin |-> origin]
    IN  IF ~IsOk(income)
        THEN [exc |-> income.exc, open |-> orders, next_id |-> next_id, calls |-> <<>>]
        ELSE IF status = "200"
        THEN [exc |-> "none", val |-> TRUE, open |-> orders \cup {order},
              next_id |-> next_id + 1, calls |-> <<post>>]
        ELSE [exc |-> "none", val |-> FALSE, open |-> orders,
              next_id |-> next_id, calls |-> <<post>>]

\* create_limit_order: the price of the side, the prompt line (which formats
\* get_income()), create_order
create_limit_order(company, operation_type, status, orders, origin) ==
    LET price == new_price(company, operation_type)
        income == get_income(company)
    IN  IF ~IsOk(income)
        THEN [exc |-> income.exc, open |-> orders, next_id |-> next_id, calls |-> <<>>]
        ELSE create_order(company, price, operation_type, status, orders, origin)

\* the gateway accepts an order only while it has ids to hand out
CanPost(status) == status = "200" => next_id <= MaxOrders

---------------------------------------------------------------------------
(* update_active_orders: the reconciliation cycle *)

\* the mutant: the list read holds an order that rests nowhere
Perms_WithPhantom(S) ==
    LET T == S \cup {[order_id |-> 0, figi |-> "F2", operation |-> "Sell", price |-> Px(10050)]}
    IN  { l \in [1..Cardinality(T) -> T] : \A i, j \in 1..Cardinality(T) : l[i] = l[j] => i = j }

\* list(payload): the open orders, in the order the gateway gives them
Perms(S) ==
    { l \in [1..Cardinality(S) -> S] : \A i, j \in 1..Cardinality(S) : l[i] = l[j] => i = j }

\* the mutant: the resting price is compared with the price the pricer gives
Drifted_AgainstPricer(order, company) ==
    ~float_eq(new_price(company, order.operation), order.price)

\* the mutant: only buy orders are ever found drifted
Drifted_BuyOnly(order, company) ==
    order.operation = "Buy" /\ ~float_eq(get_bid(company), order.price)

\* lines 214-215: the order no longer rests at the best price of its side
Drifted(order, company) ==
    \/ order.operation = "Buy" /\ ~float_eq(get_bid(company), order.price)
    \/ order.operation = "Sell" /\ ~float_eq(get_ask(company), order.price)

\* the mutant: the threshold is met at the minimum ratio itself
ThresholdCleared_AtMinimum(order, income, min_ratio) ==
    \/ income >= min_ratio /\ order.operation = "Buy"
    \/ Abs(income) >= min_ratio /\ order.operation = "Sell"

\* lines 219-220, income being company.get_income()
ThresholdCleared(order, income, min_ratio) ==
    \/ income > min_ratio /\ order.operation = "Buy"
    \/ Abs(income) > min_ratio /\ order.operation = "Sell"

\* orders_cancel_post(order_id): 200 takes the order off the book; an order
\* that has left the book cannot be cancelled
CancelOutcomes(order) == IF order \in open THEN {"200", "500"} ELSE {"500"}

\* the mutant: every order is valued with the quotes of the first one's instrument
FigiOf_First(orders_list, i) == orders_list[1].figi

\* line 213: order.figi, order being orders_list[i]
FigiOf(orders_list, i) == orders_list[i].figi

\* lines 209-211: orders_get, the loop starts on list(payload)
UpdateBegin ==
    /\ pc = "update_active_orders"
    /\ \E status \in {"200", "500"} :
        IF status = "200"
        THEN \E orders_list \in Perms(open) :
                /\ work' = orders_list
                /\ idx' = 1
                /\ pc' = "update_loop"
                /\ trace' = Append(trace, [call |-> "orders_get", status_code |-> status,
                                            moves |-> moves])
                /\ UNCHANGED ret
        ELSE /\ pc' = "crashed"
             /\ ret' = Raise("can't update orders")
             /\ trace' = Append(trace, [call |-> "orders_get", status_code |-> status,
                                         moves |-> moves])
             /\ UNCHANGED <<work, idx>>
    /\ UNCHANGED <<gateway, clock, arg>>

\* lines 212-221: one pass of the loop body
UpdateOrder ==
    /\ pc = "update_loop"
    /\ idx <= Len(work)
    /\ \E response \in SearchResponses(FigiOf(work, idx)),
          info \in OrderbookResponses(FigiOf(work, idx)) :
        LET order == work[idx]
            company == get_info_by_figi(FigiOf(work, idx), response, info)
            seen == [call |-> "get_info_by_figi", order |-> order, company |-> company]
        IN  IF ~IsOk(company)
            THEN \* get_price raised: nothing catches it
                 /\ pc' = "crashed" /\ ret' = company
                 /\ trace' = Append(trace, seen)
                 /\ UNCHANGED <<gateway, idx>>
            ELSE IF company.val = None
            THEN \* None.get_bid()
                 /\ pc' = "crashed" /\ ret' = Raise("AttributeError")
                 /\ trace' = Append(trace, seen)
                 /\ UNCHANGED <<gateway, idx>>
            ELSE IF ~Drifted(order, company.val)
            THEN /\ idx' = idx + 1
                 /\ trace' = Append(trace, seen)
                 /\ UNCHANGED <<gateway, pc, ret>>
            ELSE IF ~IsOk(get_income(company.val))
            THEN \* line 216 formats get_income() before the cancel
                 /\ pc' = "crashed" /\ ret' = get_income(company.val)
                 /\ trace' = Append(trace, seen)
                 /\ UNCHANGED <<gateway, idx>>
            ELSE \E cancel \in CancelOutcomes(order) :
                    LET cancelled == [call |-> "orders_cancel_post", order_id |-> order.order_id,
                                      status_code |-> cancel]
                        left == IF cancel = "200" THEN open \ {order} ELSE open
                    IN  IF ThresholdCleared(order, get_income(company.val).val, arg.min_ratio)
                        THEN \E status \in PostOutcomes :
                                LET made == create_limit_order(company.val, order.operation, status,
                                                               left,
                                                               [path |-> "update_active_orders",
                                                                id |-> order.order_id])
                                IN  /\ CanPost(status)
                                    /\ open' = made.open
                                    /\ next_id' = made.next_id
                                    /\ trace' = Append(Append(trace, seen), cancelled) \o made.calls
                                    /\ idx' = idx + 1
                                    /\ UNCHANGED <<book, history, moves, pc, ret>>
                        ELSE /\ open' = left
                             /\ trace' = Append(Append(trace, seen), cancelled)
                             /\ idx' = idx + 1
                             /\ UNCHANGED <<book, history, next_id, moves, pc, ret>>
    /\ UNCHANGED <<clock, work, arg>>

\* the loop is over: the function returns None
UpdateReturn ==
    /\ pc = "update_loop"
    /\ idx > Len(work)
    /\ pc' = arg.return_to
    /\ ret' = Ok(None)
    /\ UNCHANGED <<gateway, clock, work, idx, arg, trace>>

---------------------------------------------------------------------------
(* Candidate screener *)

\* constants.USD_TO_RUB: the module is not part of the sources; the value is
\* the rate of the specification's conversion example
USD_TO_RUB == 91

\* value > max_price, value being last_price / USD_TO_RUB for a rub quote
\* (the division is by a positive rate, so it is compared cross-multiplied)
OverCap(company, max_price) ==
    IF company.currency = "RUB"
    THEN company.last_price > max_price * USD_TO_RUB
    ELSE company.last_price > max_price

\* the mutant: the cap excludes its own boundary
is_valid_company_CapExclusive(company, changed, min_income, max_price) ==
    IF company.currency \notin {"RUB", "USD"} THEN Ok(FALSE)
    ELSE IF OverCap(company, max_price)
            \/ (company.currency = "RUB" /\ company.last_price = max_price * USD_TO_RUB)
            \/ (company.currency = "USD" /\ company.last_price = max_price)
         THEN Ok(FALSE)
    ELSE LET income == get_income(company)
         IN  IF ~IsOk(income) THEN income
             ELSE IF income.val < min_income \/ (changed /\ ~is_changed(company))
                  THEN Ok(FALSE)
                  ELSE Ok(TRUE)

\* `or` evaluates left to right and stops at the first true operand: the
\* income (and its division) is not evaluated for a price over the cap
is_valid_company(company, changed, min_income, max_price) ==
    IF company.currency \notin {"RUB", "USD"} THEN Ok(FALSE)
    ELSE IF OverCap(company, max_price) THEN Ok(FALSE)
    ELSE LET income == get_income(company)
         IN  IF ~IsOk(income) THEN income
             ELSE IF income.val < min_income \/ (changed /\ ~is_changed(company))
                  THEN Ok(FALSE)
                  ELSE Ok(TRUE)

---------------------------------------------------------------------------
(* The screener on its own: one call of is_valid_company on any valuation *)

Currencies == {"RUB", "USD", "EUR"}

ScreenLastPrices == {0, Px(10000), Px(10001), Px(910000), Px(910001)}
ScreenClosePrices == {Px(10000), Px(10496), Px(10500), Px(10504)}
ScreenBidPrices == {Px(10000), Px(11000)}
ScreenMinRatios == {0, 500}
ScreenMaxPrices == {Px(5000), Px(10000)}

ScreenCompanies ==
    { CompanyData("F1", "T1", OrderResponse(Px(20000), 1), OrderResponse(b, 1), cur, l, 100, c) :
        b \in ScreenBidPrices, cur \in Currencies, l \in ScreenLastPrices, c \in ScreenClosePrices }

Quiet ==
    /\ book = <<>> /\ open = {} /\ history = <<>> /\ next_id = 1 /\ moves = 0
    /\ now = 0 /\ last_update = 0 /\ work = <<>> /\ idx = 0 /\ trace = <<>>

InitValid ==
    /\ pc = "is_valid_company"
    /\ arg \in [company : ScreenCompanies, changed : BOOLEAN,
                min_income : ScreenMinRatios, max_price : ScreenMaxPrices]
    /\ ret = None
    /\ Quiet

ValidCall ==
    /\ pc = "is_valid_company"
    /\ ret' = is_valid_company(arg.company, arg.changed, arg.min_income, arg.max_price)
    /\ pc' = "returned"
    /\ UNCHANGED <<gateway, clock, work, idx, arg, trace>>

NextValid == ValidCall

SpecValid == InitValid /\ [][NextValid]_vars

\* the screening rule as the specification words it, on exact quantities
NormalizedWithinCap(c, max_price) ==
    \/ c.currency = "USD" /\ c.last_price <= max_price
    \/ c.currency = "RUB" /\ c.last_price <= max_price * USD_TO_RUB

\* (close - bid) / last_price >= m / Scale, for last_price > 0, without rounding
ExactIncomeAtLeast(c, m) == LongDiv(c.close_price - c.bid.price, c.last_price, 4).q >= m

\* round((close - bid) / last_price, 3) >= m / Scale
RoundedIncomeAtLeast(c, m) ==
    RoundRatio(c.close_price - c.bid.price, c.last_price, 3) * 10 >= m

HasChangedToday(c) == round(c.last_price, 3) /= round(c.close_price, 3)

---------------------------------------------------------------------------
(* create_company: the valuation build of the scan, guarded against throttling *)

MaxThrottle == 2

Sleeps(t) == { i \in 1..Len(t) : t[i].call = "sleep" }

\* the mutant: every failure of the quote fetch is retried after the cooldown
RetriesAfterCooldown_AnyFailure(e) == TRUE

\* str(e) == "429"
RetriesAfterCooldown(e) == e = "429"

\* try: get_price, CompanyData(...); except: sleep and retry on "429", else None
CreateCompanyCall ==
    /\ pc = "create_company"
    /\ \E info \in OrderbookResponses(arg.bond.figi) :
        LET stock_info == get_price(info)
            called == Append(trace, [call |-> "get_price", figi |-> arg.bond.figi, info |-> info])
        IN  /\ info.status_code = "429" => Cardinality(Sleeps(trace)) < MaxThrottle
            /\ trace' = called
            /\ IF IsOk(stock_info)
               THEN /\ ret' = Ok(CompanyData(arg.bond.figi, arg.bond.ticker,
                                             stock_info.val.asks[1], stock_info.val.bids[1],
                                             arg.bond.currency, stock_info.val.last_price,
                                             stock_info.val.min_price_increment,
                                             stock_info.val.close_price))
                    /\ pc' = arg.return_to
               ELSE IF RetriesAfterCooldown(stock_info.exc)
               THEN /\ pc' = "create_company_sleep"
                    /\ UNCHANGED ret
               ELSE /\ ret' = Ok(None)
                    /\ pc' = arg.return_to
    /\ UNCHANGED <<gateway, clock, work, idx, arg>>

\* time.sleep(60); return create_company(bond)
CreateCompanySleep ==
    /\ pc = "create_company_sleep"
    /\ trace' = Append(trace, [call |-> "sleep", secs |-> 60])
    /\ pc' = "create_company"
    /\ UNCHANGED <<gateway, clock, work, idx, arg, ret>>

InitCompany ==
    /\ pc = "create_company"
    /\ book \in [Figis -> Books]
    /\ arg \in { [bond |-> MarketInstrument(f), return_to |-> "returned"] : f \in Figis }
    /\ ret = None
    /\ open = {} /\ history = <<>> /\ next_id = 1 /\ moves = 0
    /\ now = 0 /\ last_update = 0 /\ work = <<>> /\ idx = 0 /\ trace = <<>>

NextCompany == CreateCompanyCall \/ CreateCompanySleep \/ MarketMove

SpecCompany == InitCompany /\ [][NextCompany]_vars

Throttled(t) == { i \in 1..Len(t) : t[i].call = "get_price" /\ t[i].info.status_code = "429" }

Fetches(t) == { i \in 1..Len(t) : t[i].call = "get_price" }

\* C8: when create_company returns after a quote fetch that succeeded, having
\* been throttled k times before: exactly k cooldown sleeps were made, each
\* right after a throttled fetch and right before the next fetch for the same
\* instrument, k + 1 fetches were made, no fetch follows a non-throttled
\* answer, and the valuation returned is the one built from the answer that
\* succeeded.  A failure other than throttling is not retried: None is
\* returned after it.
C8_ThrottleGuard ==
    pc = "returned" =>
        LET n == Len(trace)
            k == Cardinality(Throttled(trace))
        IN  /\ n >= 1 /\ trace[n].call = "get_price" /\ trace[n].info.status_code /= "429"
            /\ Cardinality(Sleeps(trace)) = k
            /\ Cardinality(Fetches(trace)) = k + 1
            /\ \A i \in Throttled(trace) :
                  /\ trace[i + 1].call = "sleep" /\ trace[i + 1].secs = 60
                  /\ trace[i + 2].call = "get_price" /\ trace[i + 2].figi = arg.bond.figi
            /\ \A i \in Fetches(trace) : trace[i].info.status_code /= "429" => i = n
            /\ IF trace[n].info.status_code = "200"
               THEN /\ ret.val /= None
                    /\ ret.val.figi = arg.bond.figi
                    /\ ret.val.last_price = trace[n].info.payload.last_price
                    /\ ret.val.close_price = trace[n].info.payload.close_price
                    /\ ret.val.minPriceIncrement = trace[n].info.payload.min_price_increment
                    /\ trace[n].info.payload.bids /= <<>> => ret.val.bid = trace[n].info.payload.bids[1]
                    /\ trace[n].info.payload.asks /= <<>> => ret.val.ask = trace[n].info.payload.asks[1]
               ELSE ret.val = None

\* throttled twice, then a valuation
C8_Witness ==
    /\ pc = "returned"
    /\ Cardinality(Throttled(trace)) = 2
    /\ Cardinality(Sleeps(trace)) = 2
    /\ ret.val /= None

---------------------------------------------------------------------------
(* update_active_orders on its own: reconciliation runs in succession on  *)
(* any account                                                            *)

MinRatios == {490}

RestingPrices == {Px(10000), Px(10050)}

OrderShapes == [figi : Figis, operation : {"Buy", "Sell"}, price : RestingPrices]

Resting(id, shape) ==
    [order_id |-> id, figi |-> shape.figi, operation |-> shape.operation, price |-> shape.price]

\* no order, one order, or two: on two instruments, or on the same instrument
\* and side at two prices
InitOpenSets ==
    {{}} \cup { {Resting(1, a)} : a \in OrderShapes }
         \cup { {Resting(1, a), Resting(2, b)} :
                  a \in { x \in OrderShapes : x.figi = "F1" },
                  b \in { x \in OrderShapes : x.figi = "F2" } }
         \cup { {Resting(1, a), Resting(2, [a EXCEPT !.price = Px(10050)])} :
                  a \in { x \in OrderShapes : x.figi = "F1" /\ x.price = Px(10000) } }

Runs(t) == { i \in 1..Len(t) : t[i].call = "orders_get" }

InitUpdate ==
    /\ pc = "update_active_orders"
    /\ book \in [Figis -> Books]
    /\ open \in InitOpenSets
    /\ next_id = Cardinality(open) + 1
    /\ arg \in [min_ratio : MinRatios, return_to : {"returned"}]
    /\ history = <<>> /\ moves = 0 /\ now = 0 /\ last_update = 0
    /\ work = <<>> /\ idx = 0 /\ trace = <<>> /\ ret = None

\* the caller runs the reconciliation again
UpdateAgain ==
    /\ pc = "returned"
    /\ Cardinality(Runs(trace)) = 1
    /\ pc' = "update_active_orders"
    /\ UNCHANGED <<gateway, clock, work, idx, arg, ret, trace>>

NextUpdate == UpdateBegin \/ UpdateOrder \/ UpdateReturn \/ MarketMove \/ OrderLeaves

SpecUpdate == InitUpdate /\ [][NextUpdate]_vars

\* two runs in succession with no market movement: nothing but the program
\* acts (no quote changes, no order leaves the book on its own)
NextTwice == UpdateBegin \/ UpdateOrder \/ UpdateReturn \/ UpdateAgain

SpecTwice == InitUpdate /\ [][NextTwice]_vars

---------------------------------------------------------------------------
(* Claims about one pass of the reconciliation loop body.  A pass shows in *)
(* the record as a get_info_by_figi entry followed by the calls it issued. *)

IsPass(e) == e.call = "get_info_by_figi"
IsCancel(e) == e.call = "orders_cancel_post"
IsPost(e) == e.call = "orders_limit_order_post"

\* the valuation of the pass was built
Valued(e) == IsPass(e) /\ IsOk(e.company) /\ e.company.val /= None

\* the best price of the order's side in the valuation
BestPrice(company, operation) ==
    IF operation = "Buy" THEN company.bid.price ELSE company.ask.price

\* the price the Order Pricer gives: one tick inside the best price
PricerPrice(company, operation) ==
    IF operation = "Buy"
    THEN company.bid.price + company.minPriceIncrement
    ELSE company.ask.price - company.minPriceIncrement

\* this step is a pass of the loop body; Issued is what it added to the record
PassStep == pc = "update_loop" /\ Len(trace') > Len(trace) /\ IsPass(trace'[Len(trace) + 1])
Seen == trace'[Len(trace) + 1]
Issued == SubSeq(trace', Len(trace) + 2, Len(trace'))

Untouched == Issued = <<>> /\ open' = open /\ next_id' = next_id

\* one cancel of the order, then at most one submit for its instrument and side
CancelThenReplace(order) ==
    /\ Len(Issued) \in {1, 2}
    /\ IsCancel(Issued[1]) /\ Issued[1].order_id = order.order_id
    /\ Len(Issued) = 2 =>
          /\ IsPost(Issued[2])
          /\ Issued[2].figi = order.figi
          /\ Issued[2].body.operation = order.operation

NoOrderCancelledTwice ==
    \A i, j \in 1..Len(trace) :
        (IsCancel(trace[i]) /\ IsCancel(trace[j]) /\ trace[i].order_id = trace[j].order_id) => i = j

Cancelled == Len(Issued) >= 1 /\ IsCancel(Issued[1]) /\ Issued[1].status_code = "200"

Replaced == Len(Issued) = 2 /\ IsPost(Issued[2])

\* (close - bid) / last_price against min_ratio, without rounding
ExactRatio(company) == LongDiv(company.close_price - company.bid.price, company.last_price, 4)

ExactCleared(order, company, min_ratio) ==
    LET x == ExactRatio(company)
    IN  \/ x.q > min_ratio
        \/ x.q = min_ratio /\ x.r > 0
        \/ order.operation = "Sell" /\ x.q < -min_ratio

\* round((close - bid) / last_price, 3) against min_ratio
RoundedCleared(order, company, min_ratio) ==
    LET x == RoundRatio(company.close_price - company.bid.price, company.last_price, 3) * 10
    IN  \/ x > min_ratio
        \/ order.operation = "Sell" /\ -x > min_ratio

PairOpen(orders, order) ==
    { o \in orders : o.figi = order.figi /\ o.operation = order.operation }

\* C4 as stated: after the cancel of a drifted order a replacement is
\* submitted iff the income ratio (close - bid) / last_price clears the
\* threshold; when it does not, the (instrument, side) has no open order.
C4_Original ==
    [][ (PassStep /\ Valued(Seen) /\ Cancelled)
        => /\ Replaced <=> ExactCleared(Seen.order, Seen.company.val, arg.min_ratio)
           /\ ~ExactCleared(Seen.order, Seen.company.val, arg.min_ratio)
                 => PairOpen(open', Seen.order) = {} ]_vars

\* C4 amended: after the cancel of a drifted order a replacement is submitted
\* iff the income ratio ROUNDED TO 3 DECIMALS clears the threshold (above
\* min_ratio for a buy, absolute value above min_ratio for a sell); when it
\* does not, nothing is submitted and the cancelled order is gone, which
\* leaves its (instrument, side) with one open order fewer.
C4_ReplaceIffCleared ==
    [][ (PassStep /\ Valued(Seen) /\ Cancelled)
        => /\ Replaced <=> RoundedCleared(Seen.order, Seen.company.val, arg.min_ratio)
           /\ ~RoundedCleared(Seen.order, Seen.company.val, arg.min_ratio)
                 => (open' = open \ {Seen.order} /\ next_id' = next_id) ]_vars

\* a drifted buy was cancelled and not replaced, its exact ratio above the
\* threshold and its rounded ratio on it; its pair is left without an order
C4_Witness ==
    /\ pc = "returned"
    /\ Len(trace) = 3
    /\ Valued(trace[2]) /\ trace[2].order.operation = "Buy"
    /\ IsCancel(trace[3]) /\ trace[3].status_code = "200"
    /\ ExactCleared(trace[2].order, trace[2].company.val, arg.min_ratio)
    /\ ~RoundedCleared(trace[2].order, trace[2].company.val, arg.min_ratio)
    /\ PairOpen(open, trace[2].order) = {}

\* C6 as stated: when the valuation of one order's instrument cannot be
\* rebuilt, every other order of the cycle's list is still evaluated.
C6_Original ==
    (Stopped /\ \E i \in 1..Len(trace) : IsPass(trace[i]) /\ ~Valued(trace[i]))
        => \A k \in 1..Len(work) : \E j \in 1..Len(trace) :
              IsPass(trace[j]) /\ trace[j].order = work[k]

---------------------------------------------------------------------------
(* Claims about two runs in succession *)

SecondRun(t) == CHOOSE i \in Runs(t) : \A j \in Runs(t) : j <= i

\* nothing outside the program has acted since the first run began
NoMovement == trace /= <<>> /\ moves = trace[1].moves /\ moves = 0

InSecondRun(i) == Cardinality(Runs(trace)) = 2 /\ i > SecondRun(trace)

\* the order the call is about
AboutOrder(e) == IF IsCancel(e) THEN e.order_id ELSE e.origin.id

\* the first run evaluated the order and issued no cancel for it
LeftInPlace(id) ==
    /\ \E i \in 1..SecondRun(trace) : Valued(trace[i]) /\ trace[i].order.order_id = id
    /\ \A i \in 1..SecondRun(trace) : IsCancel(trace[i]) => trace[i].order_id /= id

\* every call the program made was answered with success
AllAnswered ==
    \A i \in 1..Len(trace) :
        /\ IsPass(trace[i]) => Valued(trace[i])
        /\ (IsCancel(trace[i]) \/ IsPost(trace[i])) => trace[i].status_code = "200"

---------------------------------------------------------------------------
(* check_done_orders: the answer to completed trades *)

\* operations_get(from_time, to_time).payload.operations: the account's
\* operations dated within the window.  Both ends are formatted with
\* microseconds, the unit of the clock here, on a machine whose local time is
\* the +03:00 the format string names.
OperationsBetween(from_time, to_time) ==
    SelectSeq(history, LAMBDA o : from_time <= o.date /\ o.date <= to_time)

\* lines 269-272: the side opposite to the completed one
Mirror(operation_type) == IF operation_type = "Buy" THEN "Sell" ELSE "Buy"

\* lines 257-264: to_time is read off the clock, operations_get
DoneBegin ==
    /\ pc = "check_done_orders"
    /\ now' = now + 1
    /\ \E status \in {"200", "500"} :
        LET from_time == arg.from_time
            to_time == now'
            called == [call |-> "operations_get", from_time |-> from_time,
                       to_time |-> to_time, status_code |-> status]
        IN  /\ trace' = Append(trace, called)
            /\ IF status = "200"
               THEN /\ work' = OperationsBetween(from_time, to_time)
                    /\ idx' = 1
                    /\ pc' = "done_loop"
                    /\ UNCHANGED ret
               ELSE /\ pc' = "crashed"
                    /\ ret' = Raise("Can't get operations")
                    /\ UNCHANGED <<work, idx>>
    /\ UNCHANGED <<gateway, last_update, arg>>

\* lines 265-275: one pass of the loop body
DoneOperation ==
    /\ pc = "done_loop"
    /\ idx <= Len(work)
    /\ LET operation == work[idx]
       IN  IF operation.status = "Done"
           THEN \E response \in SearchResponses(operation.figi),
                   info \in OrderbookResponses(operation.figi) :
                   LET cmp_info == get_info_by_figi(operation.figi, response, info)
                       operation_type == Mirror(operation.operation_type)
                       seen == [call |-> "operation", operation |-> operation,
                                company |-> cmp_info]
                   IN  IF ~IsOk(cmp_info)
                       THEN \* get_price raised: nothing catches it
                            /\ pc' = "crashed" /\ ret' = cmp_info
                            /\ trace' = Append(trace, seen)
                            /\ UNCHANGED <<gateway, idx>>
                       ELSE IF cmp_info.val = None
                       THEN \* create_limit_order(None, ...): None.get_bid()
                            /\ pc' = "crashed" /\ ret' = Raise("AttributeError")
                            /\ trace' = Append(trace, seen)
                            /\ UNCHANGED <<gateway, idx>>
                       ELSE \E status \in PostOutcomes :
                               LET made == create_limit_order(cmp_info.val, operation_type, status,
                                                              open, [path |-> "check_done_orders",
                                                                     id |-> operation.id])
                               IN  /\ CanPost(status)
                                   /\ IF made.exc /= "none"
                                      THEN /\ pc' = "crashed" /\ ret' = Raise(made.exc)
                                           /\ trace' = Append(trace, seen)
                                           /\ UNCHANGED <<gateway, idx>>
                                      ELSE /\ open' = made.open
                                           /\ next_id' = made.next_id
                                           /\ trace' = Append(trace, seen) \o made.calls
                                           /\ idx' = idx + 1
                                           /\ UNCHANGED <<book, history, moves, pc, ret>>
           ELSE \* "operation not done"
                /\ idx' = idx + 1
                /\ trace' = Append(trace, [call |-> "operation", operation |-> operation,
                                            company |-> Ok(None)])
                /\ UNCHANGED <<gateway, pc, ret>>
    /\ UNCHANGED <<clock, work, arg>>

\* the loop is over: the function returns None
DoneReturn ==
    /\ pc = "done_loop"
    /\ idx > Len(work)
    /\ pc' = arg.return_to
    /\ ret' = Ok(None)
    /\ UNCHANGED <<gateway, clock, work, idx, arg, trace>>

---------------------------------------------------------------------------
(* check_done_orders on its own: one call over any window of operations *)

OperationStatuses == {"Done", "Decline"}

\* the account's operations so far: none, one or two, each at its own moment
Operations(n) ==
    { h \in [1..n -> [figi : Figis, operation_type : {"Buy", "Sell"},
                      status : OperationStatuses]] : TRUE }

Dated(h) ==
    [i \in DOMAIN h |-> [id |-> i, figi |-> h[i].figi, operation_type |-> h[i].operation_type,
                         status |-> h[i].status, date |-> i]]

InitDone ==
    /\ pc = "check_done_orders"
    /\ book \in [Figis -> Books]
    /\ \E n \in 0..2 : \E h \in Operations(n) : history = Dated(h)
    /\ now = 2
    /\ arg \in [from_time : {1, 2}, return_to : {"returned"}]
    /\ open = {} /\ next_id = 1 /\ moves = 0 /\ last_update = 0
    /\ work = <<>> /\ idx = 0 /\ trace = <<>> /\ ret = None

NextDone == DoneBegin \/ DoneOperation \/ DoneReturn \/ MarketMove \/ OrderLeaves

SpecDone == InitDone /\ [][NextDone]_vars

\* the submissions made in answer to one operation of the window
MirrorPosts(operation) ==
    { i \in 1..Len(trace) :
        /\ IsPost(trace[i])
        /\ trace[i].origin = [path |-> "check_done_orders", id |-> operation.id] }

\* entry i is the one order owed to a done operation: opposite side, same
\* instrument, priced by the pricer on the valuation rebuilt for it
IsMirrorOf(i, operation) ==
    /\ i > 1
    /\ trace[i - 1].call = "operation" /\ trace[i - 1].operation = operation
    /\ trace[i].figi = operation.figi
    /\ trace[i].body.operation = Mirror(operation.operation_type)
    /\ trace[i].body.price =
          round(PricerPrice(trace[i - 1].company.val, Mirror(operation.operation_type)), 2)

\* C7 as stated: once an invocation that obtained its window is over, every
\* done entry of the window has exactly one order submitted for it, on the
\* opposite side, for the same instrument, at the pricer's price, and every
\* entry that is not done has none.
C7_Original ==
    (Stopped /\ trace /= <<>> /\ trace[1].status_code = "200") =>
        \A k \in 1..Len(work) :
            IF work[k].status = "Done"
            THEN /\ Cardinality(MirrorPosts(work[k])) = 1
                 /\ \A i \in MirrorPosts(work[k]) : IsMirrorOf(i, work[k])
            ELSE MirrorPosts(work[k]) = {}

---------------------------------------------------------------------------
(* buy_companies: the placement flow over a list of candidates *)

\* input(): what the operator types; anything but Y, y and exit passes over
\* the candidate
Answers == {"Y", "y", "n", "exit"}

\* line 198
Confirms(res) == res = "Y" \/ res = "y"

\* the mutant: a submission that failed does not end the batch
BreaksOnFailure_Never(response) == FALSE

\* line 200: if response is False: break
BreaksOnFailure(response) == response = FALSE

\* lines 194-204: one pass of the loop body; a break returns to the caller
BuyCompany ==
    /\ pc = "buy_companies"
    /\ idx <= Len(arg.companies_list)
    /\ LET company == arg.companies_list[idx]
           valid == is_valid_company(company, arg.changed, arg.min_ratio, arg.max_price)
           screened == [call |-> "is_valid_company", candidate |-> idx, val |-> valid]
       IN  IF ~IsOk(valid)
           THEN \* the division of get_income raised: nothing catches it
                /\ pc' = "crashed" /\ ret' = valid
                /\ trace' = Append(trace, screened)
                /\ UNCHANGED <<gateway, idx>>
           ELSE IF valid.val /= TRUE
           THEN /\ idx' = idx + 1
                /\ trace' = Append(trace, screened)
                /\ UNCHANGED <<gateway, pc, ret>>
           ELSE \E res \in Answers :
                   LET asked == [call |-> "input", candidate |-> idx, res |-> res]
                   IN  IF Confirms(res)
                       THEN \E status \in PostOutcomes :
                               LET made == create_limit_order(company, "Buy", status, open,
                                                              [path |-> "buy_companies",
                                                               id |-> idx])
                               IN  /\ CanPost(status)
                                   /\ IF made.exc /= "none"
                                      THEN /\ pc' = "crashed" /\ ret' = Raise(made.exc)
                                           /\ trace' = Append(Append(trace, screened), asked)
                                           /\ UNCHANGED <<gateway, idx>>
                                      ELSE /\ open' = made.open
                                           /\ next_id' = made.next_id
                                           /\ trace' = Append(Append(trace, screened), asked)
                                                          \o made.calls
                                           /\ IF BreaksOnFailure(made.val)
                                              THEN pc' = arg.return_to /\ ret' = Ok(None)
                                                   /\ UNCHANGED idx
                                              ELSE idx' = idx + 1 /\ UNCHANGED <<pc, ret>>
                                           /\ UNCHANGED <<book, history, moves>>
                       ELSE IF res = "exit"
                       THEN /\ pc' = arg.return_to /\ ret' = Ok(None)
                            /\ trace' = Append(Append(trace, screened), asked)
                            /\ UNCHANGED <<gateway, idx>>
                       ELSE /\ idx' = idx + 1
                            /\ trace' = Append(Append(trace, screened), asked)
                            /\ UNCHANGED <<gateway, pc, ret>>
    /\ UNCHANGED <<clock, work, arg>>

\* the list is exhausted: the function returns None
BuyReturn ==
    /\ pc = "buy_companies"
    /\ idx > Len(arg.companies_list)
    /\ pc' = arg.return_to
    /\ ret' = Ok(None)
    /\ UNCHANGED <<gateway, clock, work, idx, arg, trace>>

---------------------------------------------------------------------------
(* The candidates as main hands them over: ranked by print_to_file *)

\* a / b < c / d for b > 0 and d > 0, on exact quantities
RECURSIVE FracLess(_, _, _, _)
FracLess(a, b, c, d) ==
    LET qa == a \div b
        qc == c \div d
        ra == a % b
        rc == c % d
    IN  IF qa /= qc THEN qa < qc
        ELSE IF rc = 0 THEN FALSE
        ELSE IF ra = 0 THEN TRUE
        ELSE FracLess(d, rc, b, ra)

\* CompanyData.__lt__: the income ratios, unrounded
lt(self, other) ==
    IF self.last_price = 0 \/ other.last_price = 0 THEN Raise("ZeroDivisionError")
    ELSE Ok(FracLess(get_delta(self), self.last_price, get_delta(other), other.last_price))

\* companies.sort(reverse=True) has been through the list: no candidate ranks
\* below a later one, and every ratio could be formed
Ranked(l) ==
    /\ \A i \in 1..Len(l) : l[i].last_price > 0
    /\ \A i, j \in 1..Len(l) : i < j => ~lt(l[i], l[j]).val

---------------------------------------------------------------------------
(* buy_companies on its own: one batch over any ranked list *)

\* a candidate as create_company left it in the list
Candidate(figi, bid, last_price, close_price) ==
    CompanyData(figi, MarketInstrument(figi).ticker, OrderResponse(bid + Px(100), 5),
                OrderResponse(bid, 5), MarketInstrument(figi).currency, last_price,
                MarketInstrument(figi).min_price_increment, close_price)

\* over the price cap; well above the minimum income; at the minimum income
\* once rounded; unchanged today; without income
Candidates ==
    { Candidate("F1", Px(10000), Px(20000), Px(13000)),
      Candidate("F1", Px(10000), Px(10000), Px(11000)),
      Candidate("F2", Px(10000), Px(10200), Px(10500)),
      Candidate("F1", Px(10000), Px(10800), Px(10800)),
      Candidate("F2", Px(10000), Px(10000), Px(10000)) }

MaxBatch == 3

CandidateLists ==
    UNION { { l \in [1..n -> Candidates] :
                (\A i, j \in 1..n : l[i] = l[j] => i = j) /\ Ranked(l) } : n \in 0..MaxBatch }

InitBuy ==
    /\ pc = "buy_companies"
    /\ book \in [Figis -> {BookA}]
    /\ arg \in [companies_list : CandidateLists, changed : BOOLEAN, min_ratio : MinRatios,
                max_price : {Px(15000)}, return_to : {"returned"}]
    /\ idx = 1
    /\ open = {} /\ history = <<>> /\ next_id = 1 /\ moves = 0
    /\ now = 0 /\ last_update = 0 /\ work = <<>> /\ trace = <<>> /\ ret = None

NextBuy == BuyCompany \/ BuyReturn

SpecBuy == InitBuy /\ [][NextBuy]_vars

WasScreened(i) ==
    \E k \in 1..Len(trace) : trace[k].call = "is_valid_company" /\ trace[k].candidate = i

Asked(i) == { k \in 1..Len(trace) : trace[k].call = "input" /\ trace[k].candidate = i }

Offered(i) == Asked(i) /= {}

AnswerOf(i) == trace[CHOOSE k \in Asked(i) : TRUE].res

PlacedFor(i) ==
    { k \in 1..Len(trace) :
        IsPost(trace[k]) /\ trace[k].origin = [path |-> "buy_companies", id |-> i] }

Passes(i) ==
    is_valid_company(arg.companies_list[i], arg.changed, arg.min_ratio, arg.max_price) = Ok(TRUE)

\* candidate j ended the batch: abort, or a confirmed submission that failed
Ended(j) ==
    \/ Offered(j) /\ AnswerOf(j) = "exit"
    \/ \E k \in PlacedFor(j) : trace[k].status_code /= "200"

EndedBefore(i) == \E j \in 1..(i - 1) : Ended(j)

\* C9: in one batch, an order is submitted for a candidate exactly when it
\* passes the screener, the operator confirmed it (Y or y) and no earlier
\* candidate was answered with exit or had its confirmed submission fail; it
\* is then one buy order for the candidate's instrument.  After an exit or a
\* failed submission no later candidate is screened, offered or submitted.
\* Any other answer submits nothing, and the next candidate is gone through.
\* By the end of the batch every candidate that passes the screener with no
\* earlier end of the batch has been offered.
C9_PlacementFlow ==
    \A i \in 1..Len(arg.companies_list) :
        /\ Cardinality(PlacedFor(i)) <= 1 /\ Cardinality(Asked(i)) <= 1
        /\ PlacedFor(i) /= {} <=>
              (Passes(i) /\ Offered(i) /\ AnswerOf(i) \in {"Y", "y"} /\ ~EndedBefore(i))
        /\ \A k \in PlacedFor(i) :
              /\ trace[k].figi = arg.companies_list[i].figi
              /\ trace[k].body.operation = "Buy"
        /\ Offered(i) => Passes(i) /\ ~EndedBefore(i)
        /\ EndedBefore(i) => ~WasScreened(i) /\ ~Offered(i) /\ PlacedFor(i) = {}
        /\ pc = "returned" =>
              /\ (Passes(i) /\ ~EndedBefore(i)) => Offered(i)
              /\ (Offered(i) /\ AnswerOf(i) \notin {"Y", "y", "exit"} /\ i < Len(arg.companies_list))
                    => WasScreened(i + 1)

\* three candidates that pass: the first is bought, the submission for the
\* second fails, the third is never gone through
C9_Witness ==
    /\ pc = "returned"
    /\ Len(arg.companies_list) = 3
    /\ \A i \in 1..3 : Passes(i)
    /\ \E k \in PlacedFor(1) : trace[k].status_code = "200"
    /\ \E k \in PlacedFor(2) : trace[k].status_code = "500"
    /\ ~WasScreened(3) /\ PlacedFor(3) = {}
    /\ Cardinality(open) = 1

---------------------------------------------------------------------------
(* parse_stocks and print_to_file: the scan that builds the candidates *)

\* market_stocks_get().payload.instruments
Instruments == <<MarketInstrument("F1"), MarketInstrument("F2")>>

\* lines 125-133: market_stocks_get; on any status but 200 None is returned
\* and main raises "Can't parse stocks"
ParseBegin ==
    /\ pc = "parse_stocks"
    /\ \E status \in {"200", "500"} :
        /\ trace' = Append(trace, [call |-> "market_stocks_get", status_code |-> status])
        /\ IF status = "200"
           THEN /\ work' = Instruments
                /\ idx' = 1
                /\ arg' = [arg EXCEPT !.companies_list = <<>>]
                /\ pc' = "parse_loop"
                /\ UNCHANGED ret
           ELSE /\ pc' = "crashed"
                /\ ret' = Raise("Can't parse stocks")
                /\ UNCHANGED <<work, idx, arg>>
    /\ UNCHANGED <<gateway, clock>>

\* lines 134-140: the next instrument goes to create_company, unless the
\* list is already as long as number_to_parse (the number of instruments)
ParseBond ==
    /\ pc = "parse_loop"
    /\ idx <= Len(work)
    /\ IF Len(arg.companies_list) >= Len(work)
       THEN /\ pc' = "print_to_file"
            /\ UNCHANGED arg
       ELSE /\ pc' = "create_company"
            /\ arg' = [arg EXCEPT !.bond = work[idx], !.return_to = "parse_collect"]
    /\ UNCHANGED <<gateway, clock, work, idx, ret, trace>>

\* lines 140-142: a valuation is kept, None is dropped
ParseCollect ==
    /\ pc = "parse_collect"
    /\ arg' = [arg EXCEPT !.companies_list =
                  IF ret.val /= None THEN Append(@, ret.val) ELSE @]
    /\ idx' = idx + 1
    /\ pc' = "parse_loop"
    /\ UNCHANGED <<gateway, clock, work, ret, trace>>

\* lines 144-145: the list is returned to main
ParseReturn ==
    /\ pc = "parse_loop"
    /\ idx > Len(work)
    /\ pc' = "print_to_file"
    /\ UNCHANGED <<gateway, clock, work, idx, arg, ret, trace>>

\* the place of x in a list ranked from the highest ratio down: after every
\* element that is not below it
RankOf(s, x) == Cardinality({ i \in 1..Len(s) : ~lt(s[i], x).val })

\* companies.sort(reverse=True): a stable sort by __lt__, highest first
RECURSIVE sort_reverse(_)
sort_reverse(l) ==
    IF Len(l) <= 1 THEN l
    ELSE LET s == sort_reverse(SubSeq(l, 1, Len(l) - 1))
             x == l[Len(l)]
             k == RankOf(s, x)
         IN  SubSeq(s, 1, k) \o <<x>> \o SubSeq(s, k + 1, Len(s))

\* lines 148-152, 290-294: print_to_file sorts the list in place and prints
\* every candidate (each __lt__ and each __str__ divides by last_price), the
\* list is saved and handed to buy_companies
MainPrint ==
    /\ pc = "print_to_file"
    /\ IF \E i \in 1..Len(arg.companies_list) : arg.companies_list[i].last_price = 0
       THEN /\ pc' = "crashed"
            /\ ret' = Raise("ZeroDivisionError")
            /\ UNCHANGED <<arg, idx>>
       ELSE /\ arg' = [arg EXCEPT !.companies_list = sort_reverse(@),
                                  !.return_to = "main_update"]
            /\ idx' = 1
            /\ pc' = "buy_companies"
            /\ UNCHANGED ret
    /\ UNCHANGED <<gateway, clock, work, trace>>

---------------------------------------------------------------------------
(* __main__ *)

MaxCycles == 1

\* line 283: check_done_orders(time.time())
MainCheck ==
    /\ pc = "main"
    /\ now' = now + 1
    /\ arg' = [arg EXCEPT !.from_time = now', !.return_to = "parse_arguments"]
    /\ pc' = "check_done_orders"
    /\ UNCHANGED <<gateway, last_update, work, idx, ret, trace>>

\* lines 284-294: the scan, or the list loaded (load_stocks) from the file of
\* an earlier scan, or neither
MainArguments ==
    /\ pc = "parse_arguments"
    /\ IF arg.parse
       THEN /\ pc' = "parse_stocks"
            /\ UNCHANGED <<arg, idx>>
       ELSE IF arg.f /= None
       THEN /\ arg' = [arg EXCEPT !.companies_list = arg.f.stocks, !.return_to = "main_update"]
            /\ idx' = 1
            /\ pc' = "buy_companies"
       ELSE /\ pc' = "main_update"
            /\ UNCHANGED <<arg, idx>>
    /\ UNCHANGED <<gateway, clock, work, ret, trace>>

\* lines 295-296: without --update the program ends; with it the first
\* checkpoint is read off the clock
MainUpdate ==
    /\ pc = "main_update"
    /\ IF arg.update
       THEN /\ now' = now + 1
            /\ last_update' = now'
            /\ pc' = "loop"
       ELSE /\ pc' = "exit"
            /\ UNCHANGED clock
    /\ UNCHANGED <<gateway, work, idx, arg, ret, trace>>

\* line 298: check_done_orders(last_update).  The loop is followed through
\* MaxCycles cycles and the check_done_orders that comes after them.
LoopCheck ==
    /\ pc = "loop"
    /\ Cardinality(Runs(trace)) <= MaxCycles
    /\ arg' = [arg EXCEPT !.from_time = last_update, !.return_to = "loop_update"]
    /\ pc' = "check_done_orders"
    /\ UNCHANGED <<gateway, clock, work, idx, ret, trace>>

\* line 299: update_active_orders(args.min_ratio)
LoopUpdate ==
    /\ pc = "loop_update"
    /\ Cardinality(Runs(trace)) < MaxCycles
    /\ arg' = [arg EXCEPT !.return_to = "loop_stamp"]
    /\ pc' = "update_active_orders"
    /\ UNCHANGED <<gateway, clock, work, idx, ret, trace>>

\* the mutant: the loop keeps the checkpoint it started with
LoopStamp_Stale ==
    /\ pc = "loop_stamp"
    /\ now' = now + 1
    /\ last_update' = last_update
    /\ pc' = "loop"
    /\ UNCHANGED <<gateway, work, idx, arg, ret, trace>>

\* lines 300-301: the checkpoint is read off the clock, then the sleep
LoopStamp ==
    /\ pc = "loop_stamp"
    /\ now' = now + 1
    /\ last_update' = now'
    /\ pc' = "loop"
    /\ UNCHANGED <<gateway, work, idx, arg, ret, trace>>

\* the file of an earlier scan: two candidates that pass the screener
StoredLists ==
    { << Candidate("F1", Px(10000), Px(10000), Px(11000)),
         Candidate("F2", Px(10000), Px(10200), Px(10500)) >> }

Arguments ==
    { [parse |-> p, f |-> f, update |-> u, changed |-> FALSE, min_ratio |-> m,
       max_price |-> Px(15000), companies_list |-> <<>>, from_time |-> 0,
       bond |-> None, return_to |-> "exit"] :
        p \in BOOLEAN, f \in {None} \cup { [stocks |-> l] : l \in StoredLists }, u \in BOOLEAN, m \in MinRatios }

\* the program starts on an account with no order of its own
Init ==
    /\ pc = "main"
    /\ book \in [Figis -> {BookA}]
    /\ arg \in Arguments
    /\ open = {} /\ history = <<>> /\ next_id = 1 /\ moves = 0
    /\ now = 0 /\ last_update = 0
    /\ work = <<>> /\ idx = 0 /\ trace = <<>> /\ ret = None

Next ==
    \/ MainCheck \/ MainArguments \/ MainUpdate
    \/ ParseBegin \/ ParseBond \/ ParseCollect \/ ParseReturn \/ MainPrint
    \/ CreateCompanyCall \/ CreateCompanySleep
    \/ BuyCompany \/ BuyReturn
    \/ LoopCheck \/ LoopUpdate \/ LoopStamp
    \/ DoneBegin \/ DoneOperation \/ DoneReturn
    \/ UpdateBegin \/ UpdateOrder \/ UpdateReturn
    \/ MarketMove \/ OrderLeaves

Spec == Init /\ [][Next]_vars

\* the open orders of one instrument and side
OnPair(figi, operation) == { o \in open : o.figi = figi /\ o.operation = operation }

\* C1 as stated: in every reachable state each (instrument, side) pair has at
\* most one resting open order placed by this system.
C1_Original ==
    \A figi \in Figis, operation \in {"Buy", "Sell"} :
        Cardinality(OnPair(figi, operation)) <= 1

---------------------------------------------------------------------------
(* create_limit_order on its own: one call on any valuation and side *)

PricerBids == {OrderResponse(Px(10000), 5), OrderResponse(Px(10049) + 49, 2),
               OrderResponse(Px(1000000), 0)}
PricerAsks == {OrderResponse(Px(10100), 5), OrderResponse(Px(10050) + 50, 2),
               OrderResponse(0, 0)}
PricerTicks == {Px(50), Px(1), 40, 50, 150}
PricerLastPrices == {0, Px(10200)}

PricerCompanies ==
    { CompanyData("F1", "T1", a, b, "USD", l, t, Px(10500)) :
        a \in PricerAsks, b \in PricerBids, l \in PricerLastPrices, t \in PricerTicks }

InitPricer ==
    /\ pc = "create_limit_order"
    /\ arg \in [company : PricerCompanies, operation_type : {"Buy", "Sell"}]
    /\ ret = None
    /\ Quiet

\* one call of create_limit_order(company, operation_type)
PricerCall ==
    /\ pc = "create_limit_order"
    /\ \E status \in PostOutcomes :
        LET made == create_limit_order(arg.company, arg.operation_type, status, open,
                                       [path |-> "create_limit_order", id |-> 0])
        IN  /\ CanPost(status)
            /\ IF made.exc /= "none"
               THEN /\ pc' = "crashed"
                    /\ ret' = Raise(made.exc)
                    /\ UNCHANGED <<open, next_id, trace>>
               ELSE /\ pc' = "returned"
                    /\ ret' = Ok(made.val)
                    /\ open' = made.open
                    /\ next_id' = made.next_id
                    /\ trace' = trace \o made.calls
    /\ UNCHANGED <<book, history, moves, clock, work, idx, arg>>

NextPricer == PricerCall

SpecPricer == InitPricer /\ [][NextPricer]_vars

\* p is x brought to 2 decimal places: a whole number of hundredths, none nearer
NearestHundredth(p, x) == p % 100 = 0 /\ 2 * Abs(p - x) <= 100

\* C11: the price of the order create_limit_order submits is the best bid
\* plus one tick for a buy and the best ask minus one tick for a sell, both
\* read off the valuation passed in, brought to 2 decimal places; the order is
\* for the valuation's instrument and the side asked for.
C11_PricerPrice ==
    \A i \in 1..Len(trace) :
        IsPost(trace[i]) =>
            /\ trace[i].figi = arg.company.figi
            /\ trace[i].body.operation = arg.operation_type
            /\ NearestHundredth(trace[i].body.price,
                                IF arg.operation_type = "Buy"
                                THEN arg.company.bid.price + arg.company.minPriceIncrement
                                ELSE arg.company.ask.price - arg.company.minPriceIncrement)

\* a sell priced with a tick finer than a hundredth: best ask 100.505 less
\* 0.004 goes out as 100.50
C11_Witness ==
    /\ pc = "returned"
    /\ Len(trace) = 1 /\ IsPost(trace[1])
    /\ arg.operation_type = "Sell"
    /\ arg.company.ask.price = Px(10050) + 50
    /\ arg.company.minPriceIncrement = 40
    /\ trace[1].body.price = Px(10050)

---------------------------------------------------------------------------
(* The two builders of a valuation on their own: create_company and       *)
(* get_info_by_figi, once each, over books with either side empty         *)

QuoteBooks ==
    [bids : {<<>>, <<OrderResponse(Px(10000), 5)>>},
     asks : {<<>>, <<OrderResponse(Px(10100), 5)>>},
     last_price : {0, Px(10200)},
     close_price : {Px(10500)}]

\* one call of get_info_by_figi(figi)
InfoCall ==
    /\ pc = "get_info_by_figi"
    /\ \E response \in SearchResponses(arg.bond.figi),
          info \in OrderbookResponses(arg.bond.figi) :
        LET company == get_info_by_figi(arg.bond.figi, response, info)
        IN  /\ trace' = Append(trace, [call |-> "market_search_by_figi_get",
                                        figi |-> arg.bond.figi,
                                        status_code |-> response.status_code])
            /\ ret' = company
            /\ pc' = IF IsOk(company) THEN arg.return_to ELSE "crashed"
    /\ UNCHANGED <<gateway, clock, work, idx, arg>>

InitQuote ==
    /\ pc \in {"create_company", "get_info_by_figi"}
    /\ book \in [Figis -> QuoteBooks]
    /\ arg \in { [bond |-> MarketInstrument(f), return_to |-> "returned"] : f \in Figis }
    /\ ret = None
    /\ open = {} /\ history = <<>> /\ next_id = 1 /\ moves = 0
    /\ now = 0 /\ last_update = 0 /\ work = <<>> /\ idx = 0 /\ trace = <<>>

NextQuote == CreateCompanyCall \/ CreateCompanySleep \/ InfoCall

SpecQuote == InitQuote /\ [][NextQuote]_vars

\* a valuation has been built and returned
Built == pc = "returned" /\ IsOk(ret) /\ ret.val /= None

\* C12: every valuation that is built has a best ask and a best bid: with no
\* ask in the book the best ask is price 0, quantity 0; with no bid the best
\* bid is price 10000, quantity 0; a side that has a level keeps its first
\* level as it is.
C12_BothSides ==
    Built =>
        LET upstream == book[arg.bond.figi]
        IN  /\ ret.val.ask = IF upstream.asks = <<>>
                             THEN [price |-> 0, quantity |-> 0]
                             ELSE upstream.asks[1]
            /\ ret.val.bid = IF upstream.bids = <<>>
                             THEN [price |-> 10000 * Scale, quantity |-> 0]
                             ELSE upstream.bids[1]

\* get_info_by_figi has built a valuation from a book with bids and no ask
C12_Witness ==
    /\ Built
    /\ trace[Len(trace)].call = "market_search_by_figi_get"
    /\ book[arg.bond.figi].asks = <<>>
    /\ book[arg.bond.figi].bids /= <<>>
    /\ ret.val.ask.price = 0
    /\ ret.val.bid.price = Px(10000)

---------------------------------------------------------------------------
(* The update loop on its own: main --update on an account that holds the *)
(* orders of an earlier session.  The quotes are any, and stay as they    *)
(* are; orders are executed or dropped at any moment.                     *)

\* no order; one order on F1; a buy at the best bid with a sell above it on
\* F1; a buy on F1 with a sell on F2
LoopOpenSets ==
    {{}} \cup { {Resting(1, a)} : a \in { x \in OrderShapes : x.figi = "F1" } }
         \cup { {Resting(1, [figi |-> "F1", operation |-> "Buy", price |-> Px(10000)]),
                 Resting(2, [figi |-> f, operation |-> "Sell", price |-> Px(10050)])} :
                  f \in Figis }

InitLoop ==
    /\ pc = "main_update"
    /\ book \in { [f \in Figis |-> IF f = "F1" THEN b ELSE BookA] : b \in Books }
    /\ arg \in { a \in Arguments : a.update /\ ~a.parse /\ a.f = None }
    /\ open \in LoopOpenSets
    /\ next_id = Cardinality(open) + 1
    /\ history = <<>> /\ moves = 0 /\ now = 0 /\ last_update = 0
    /\ work = <<>> /\ idx = 0 /\ trace = <<>> /\ ret = None

NextLoop ==
    \/ MainUpdate \/ LoopCheck \/ LoopUpdate \/ LoopStamp
    \/ DoneBegin \/ DoneOperation \/ DoneReturn
    \/ UpdateBegin \/ UpdateOrder \/ UpdateReturn
    \/ OrderLeaves

SpecLoop == InitLoop /\ [][NextLoop]_vars

---------------------------------------------------------------------------
(* Claims about the update loop *)

\* pass i of a reconciliation cancelled its order and submitted nothing
Absented(i) ==
    /\ Valued(trace[i])
    /\ i + 1 <= Len(trace) /\ IsCancel(trace[i + 1]) /\ trace[i + 1].status_code = "200"
    /\ ~(i + 2 <= Len(trace) /\ IsPost(trace[i + 2])
         /\ trace[i + 2].origin.path = "update_active_orders")

\* entry j is a submission of the update loop for the pair of order o
LoopPostFor(j, o) ==
    /\ IsPost(trace[j])
    /\ trace[j].origin.path \in {"update_active_orders", "check_done_orders"}
    /\ trace[j].figi = o.figi
    /\ trace[j].body.operation = o.operation

\* C13 as stated: once a pair's drifted order has been cancelled and not
\* replaced, neither the reconciliation nor the answer to completed trades
\* submits an order for that pair.
C13_Original ==
    \A i, j \in 1..Len(trace) :
        (i < j /\ Absented(i)) => ~LoopPostFor(j, trace[i].order)

\* what this step added to the record
Added == SubSeq(trace', Len(trace) + 1, Len(trace'))

\* C13 amended: a reconciliation cycle submits an order only in the pass over
\* an order of the list it read, right after its cancel of that order, for
\* that order's instrument and side; the list it read is the open orders of
\* that moment and stays as read through the cycle.  So a pair with no open
\* order when the cycle reads the list gets no order from the cycle.  (The
\* answer to completed trades is not held to this.)
C13_ReconciliationKeepsAbsent ==
    [][ /\ (pc = "update_active_orders" /\ pc' = "update_loop")
            => { work'[k] : k \in 1..Len(work') } = open
        /\ (pc = "update_loop" /\ pc' = "update_loop") => work' = work
        /\ (\E k \in 1..Len(Added) :
               IsPost(Added[k]) /\ Added[k].origin.path = "update_active_orders")
            => /\ PassStep
               /\ Seen.order = work[idx]
               /\ Len(Issued) = 2
               /\ IsCancel(Issued[1]) /\ Issued[1].order_id = work[idx].order_id
               /\ Issued[2].figi = work[idx].figi
               /\ Issued[2].body.operation = work[idx].operation ]_vars

\* a reconciliation left a pair without an order, it went on to replace the
\* order of another pair, and the answer to a completed trade then submitted
\* an order for the pair left empty
C13_Witness ==
    \E i, j, k \in 1..Len(trace) :
        /\ i < k /\ k < j
        /\ Absented(i)
        /\ IsPost(trace[k]) /\ trace[k].origin.path = "update_active_orders"
        /\ ~LoopPostFor(k, trace[i].order)
        /\ LoopPostFor(j, trace[i].order)
        /\ trace[j].origin.path = "check_done_orders"

\* entry e records a quote fetch or an instrument lookup that failed: the
\* fetch raised, or the lookup gave None for an order or a done trade
FailedLookup(e) ==
    /\ IsPass(e) \/ (e.call = "operation" /\ e.operation.status = "Done")
    /\ ~IsOk(e.company) \/ e.company.val = None

\* C14 as stated, as far as a finite run can refute it: a quote fetch or an
\* instrument lookup that fails for one instrument does not end the process
\* (the loop goes on to its next cycle).
C14_Original ==
    (trace /= <<>> /\ FailedLookup(trace[Len(trace)])) => pc /= "crashed"

\* the invocations of check_done_orders: their operations_get calls
Windows == { w \in 1..Len(trace) : trace[w].call = "operations_get" }

InWindow(w, operation) ==
    trace[w].from_time <= operation.date /\ operation.date <= trace[w].to_time

\* the checkpoint of the first invocation
FirstCheckpoint == trace[CHOOSE w \in Windows : \A v \in Windows : w <= v].from_time

\* no window holds the trade and one has already begun after it: since the
\* checkpoints only grow, no later window will hold it either
Skipped(operation) ==
    /\ \A w \in Windows : ~InWindow(w, operation)
    /\ \E w \in Windows : trace[w].status_code = "200" /\ trace[w].from_time > operation.date

\* C15 as stated, as far as a finite run can refute it: no trade that
\* completes at or after the loop's first checkpoint falls between the window
\* of one invocation and the window of the next.
C15_Original ==
    \A k \in 1..Len(history) :
        (/\ Windows /= {}
         /\ history[k].status = "Done"
         /\ history[k].date >= FirstCheckpoint) => ~Skipped(history[k])

\* entry e records a quote fetch, made for an open order or for a done
\* trade, that the gateway throttled
ThrottledLookup(e) ==
    /\ IsPass(e) \/ (e.call = "operation" /\ e.operation.status = "Done")
    /\ ~IsOk(e.company)
    /\ e.company.exc = "429"

\* C16 as stated: a throttled quote fetch of the reconciliation or of the
\* answer to completed trades is followed by the cooldown sleep (and the
\* retry), and never reaches the loop as a failure.
C16_Original ==
    \A i \in 1..Len(trace) :
        ThrottledLookup(trace[i]) =>
            /\ pc /= "crashed"
            /\ ret /= Raise("429")
            /\ i < Len(trace) /\ trace[i + 1].call = "sleep"

---------------------------------------------------------------------------
(* Further claims about the screener, the reconciliation and the orders *)

\* C17 as stated: a valuation whose last price is zero is reported as not
\* eligible by the screener, which raises nothing.
C17_Original ==
    (pc = "returned" /\ arg.company.last_price = 0) => ret = Ok(FALSE)

\* C18 as stated: the reconciliation submits a replacement only after a
\* cancel of the old order that succeeded.
C18_Original ==
    \A i \in 1..Len(trace) :
        (IsPost(trace[i]) /\ trace[i].origin.path = "update_active_orders") =>
            /\ i > 1
            /\ IsCancel(trace[i - 1])
            /\ trace[i - 1].order_id = trace[i].origin.id
            /\ trace[i - 1].status_code = "200"

\* C19 as stated: every order submitted has a limit price above zero, also
\* when the side it is priced from was empty and stands at its sentinel.
C19_Original ==
    \A i \in 1..Len(trace) : IsPost(trace[i]) => trace[i].body.price > 0

\* C20: within one run of the update loop, the window of every invocation of
\* check_done_orders begins strictly after the window of the invocation
\* before it ended, and no completed trade is answered with more than one
\* mirror order.
C20_WindowsNeverOverlap ==
    /\ \A w, v \in Windows : w < v => trace[v].from_time > trace[w].to_time
    /\ \A k \in 1..Len(history) : Cardinality(MirrorPosts(history[k])) <= 1

\* two invocations have been through their windows, and a trade completed in
\* the first one has its one mirror order
C20_Witness ==
    /\ pc = "loop_update"
    /\ \E w, v \in Windows :
        /\ w < v
        /\ trace[w].status_code = "200" /\ trace[v].status_code = "200"
        /\ \E k \in 1..Len(history) :
            /\ history[k].status = "Done"
            /\ InWindow(w, history[k])
            /\ Cardinality(MirrorPosts(history[k])) = 1
            /\ \A i \in MirrorPosts(history[k]) : i < v

====
